---- MODULE Spec2Model ----
(***************************************************************************)
(* Low level variable code generation of nuitka/codegen/VariableCodes.py.  *)
(*                                                                         *)
(* One generation context (its owner, its set of temporaries that own a    *)
(* reference, its "needs exception variables" flag) and one variable are   *)
(* fixed by Init; every step is one call of a generator on them            *)
(* (declaration, assignment, access, deletion).  The output handed to the  *)
(* emit sink by the last call is kept in "emitted".                        *)
(***************************************************************************)
EXTENDS Integers, Sequences, FiniteSets, TLC

VARIABLES
    owner,                 \* context.getOwner(): the scope being generated
    python_version,        \* Utils.python_version
    variable,              \* the Variable the calls are about
    cleanupSet,            \* the context's temporaries owning a reference
    needsExceptionState,   \* set by context.markAsNeedsExceptionVariables()
    emitted,               \* what the last call handed to emit, in order
    call,                  \* the last call: operation, arguments, locals
    removals,              \* per temporary, how often it was removed
    trip                   \* the storage names of a running declaration,
                           \* assignment, access sequence, in order

vars == << owner, python_version, variable, cleanupSet, needsExceptionState,
           emitted, call, removals, trip >>

-----------------------------------------------------------------------------
(* Bounds and input domains *)

MaxTemps == 2

TempNames == << "tmp_assign_source_1", "tmp_assign_source_2",
                "tmp_assign_source_3", "tmp_assign_source_4" >>

Temps == { TempNames[i] : i \in 1..MaxTemps }

Names == { "x", "é" }

Kinds == { "ModuleGlobal", "MaybeLocal", "Local", "Parameter", "Temporary" }

PythonVersions == { 330, 340 }

\* The scopes: the module, and a function of each flavour.
Scopes ==
    { [id |-> "module", isPythonModule |-> TRUE,
       needsCreation |-> FALSE, isGenerator |-> FALSE],
      [id |-> "function", isPythonModule |-> FALSE,
       needsCreation |-> FALSE, isGenerator |-> FALSE],
      [id |-> "generator", isPythonModule |-> FALSE,
       needsCreation |-> FALSE, isGenerator |-> TRUE],
      [id |-> "created_function", isPythonModule |-> FALSE,
       needsCreation |-> TRUE, isGenerator |-> FALSE],
      [id |-> "created_generator", isPythonModule |-> FALSE,
       needsCreation |-> TRUE, isGenerator |-> TRUE] }

\* A scope that is never the one being generated: the owner of a variable
\* taken from another scope.
OtherScope == "enclosing_function"

Variables ==
    [ name : Names, kind : Kinds,
      owner : { s.id : s \in Scopes } \cup { OtherScope },
      isSharedTechnically : BOOLEAN, hasDelIndicator : BOOLEAN,
      isTempVariableReference : BOOLEAN ]

\* The variables scope analysis can hand to a context: owned by the
\* context's scope or by another one; the attributes a kind does not have
\* are false (only a temporary is a temporary reference, a module or
\* maybe local variable has no del indicator, a module variable is not
\* shared).
VariablesOf(context) ==
    { v \in Variables :
        /\ v.owner \in { context.id, OtherScope }
        /\ v.isTempVariableReference => v.kind = "Temporary"
        /\ v.hasDelIndicator => v.kind \in { "Local", "Parameter", "Temporary" }
        /\ v.isSharedTechnically => v.kind # "ModuleGlobal" }

\* Python's None, for an init_from that is not given.
None == "None"

\* What a declaration can be initialized from: nothing, or the incoming
\* argument of the parameter.
InitSources(v) == { None, "_python_par_" \o v.name }

NoCall == [ op |-> "none", tmp_name |-> "", tolerant |-> FALSE,
            init_from |-> None, in_context |-> FALSE, ref_count |-> 0 ]

-----------------------------------------------------------------------------
(* The Variable predicates *)

isModuleVariable(v) == v.kind = "ModuleGlobal"

isMaybeLocalVariable(v) == v.kind = "MaybeLocal"

isLocalVariable(v) == v.kind \in { "Local", "Parameter" }

isParameterVariable(v) == v.kind = "Parameter"

isTempVariable(v) == v.kind = "Temporary"

\* Utils.encodeNonAscii: a character outside ASCII becomes "$$" and its code.
encodeNonAscii(name) ==
    CASE name = "é" -> "$$233"
      [] OTHER -> name

\* getConstantCode for a name: the constant pool's identifier of the string.
getConstantCode(name) == "const_str_plain_" \o encodeNonAscii(name)

getModuleCodeName == "module___main__"

getIntResName == "tmp_res"

getBoolResName == "tmp_result"

\* variable.getDeclarationTypeCode: boxed cell or plain slot.
getDeclarationTypeCode(v, in_context) ==
    IF isTempVariable(v)
    THEN IF v.isSharedTechnically THEN "PyObjectSharedTempVariable"
                                  ELSE "PyObjectTempVariable"
    ELSE IF v.isSharedTechnically THEN "PyObjectSharedLocalVariable"
                                  ELSE "PyObjectLocalVariable"

\* result.endswith("*"): the last character of the type's text is "*".
endswithStar(type) ==
    Len(type) > 0 /\ SubSeq(type, Len(type), Len(type)) = "*"

-----------------------------------------------------------------------------
(* The generation context's operations *)

needsCleanup(cleanup, tmp_name) == tmp_name \in cleanup

removeCleanupTempName(cleanup, tmp_name) == cleanup \ { tmp_name }

\* getErrorFormatExitCode: the guard on a loaded value.
getErrorFormatExitCode(check_name, exception, args) ==
    [ template |-> "getErrorFormatExitCode", check_name |-> check_name,
      exception |-> exception, args |-> args ]

\* getErrorFormatExitBoolCode: the guard on a condition.
getErrorFormatExitBoolCode(condition, exception, args) ==
    [ template |-> "getErrorFormatExitBoolCode", condition |-> condition,
      exception |-> exception, args |-> args ]

IsGuard(e) ==
    e.template \in { "getErrorFormatExitCode", "getErrorFormatExitBoolCode" }

\* Every guard marks the context as needing the exception variables.
GuardEmitted(out) == \E i \in 1..Len(out) : IsGuard(out[i])

-----------------------------------------------------------------------------
(* Context access and naming *)

\* The access path computed without regard to force_closure.
getContextAccess_unforced(context, force_closure) ==
    IF context.isPythonModule
    THEN ""
    ELSE IF context.isGenerator THEN "_python_context->" ELSE ""

_getContextAccess(context, force_closure) ==
    IF context.isPythonModule
    THEN ""
    ELSE IF context.needsCreation
         THEN IF context.isGenerator
              THEN IF force_closure THEN "_python_context->common_context->"
                                    ELSE "_python_context->"
              ELSE IF force_closure THEN "_python_context->"
                                    ELSE ""
         ELSE IF context.isGenerator THEN "_python_context->"
                                     ELSE ""

\* The name chosen by the variable's kind alone.
getVariableCodeName_byKind(in_context, v) ==
    IF isParameterVariable(v) THEN "par_" \o encodeNonAscii(v.name)
    ELSE IF isTempVariable(v) THEN "tmp_" \o encodeNonAscii(v.name)
    ELSE "var_" \o encodeNonAscii(v.name)

getVariableCodeName(in_context, v) ==
    IF in_context THEN "closure_" \o encodeNonAscii(v.name)
    ELSE IF isParameterVariable(v) THEN "par_" \o encodeNonAscii(v.name)
    ELSE IF isTempVariable(v) THEN "tmp_" \o encodeNonAscii(v.name)
    ELSE "var_" \o encodeNonAscii(v.name)

\* The in_context argument getVariableCode gives to getVariableCodeName.
usedInContext(context, v) ==
    context.id # v.owner
        \/ (~context.isPythonModule /\ context.isGenerator)

getVariableCode(context, v) ==
    _getContextAccess(context, v.owner # context.id)
        \o getVariableCodeName(usedInContext(context, v), v)

\* The storage name an assignment or access renders, as "trip" keeps it.
usedName(op, context, v) ==
    [ op |-> op, identifier |-> getVariableCode(context, v),
      in_context |-> usedInContext(context, v) ]

-----------------------------------------------------------------------------
(* Declaration *)

\* The part of the declaration that names the storage.
declaredName(v, in_context) == getVariableCodeName(in_context, v)

\* The initializer appended to the declaration.
declaredInit(v, init_from, in_context) ==
    IF ~in_context
    THEN IF isTempVariable(v)
         THEN IF v.isSharedTechnically THEN "( NULL )" ELSE ""
         ELSE IF init_from # None THEN "( " \o init_from \o " )" ELSE ""
    ELSE ""

getLocalVariableInitCode(v, init_from, in_context) ==
    LET type == getDeclarationTypeCode(v, in_context)
    IN  type \o (IF endswithStar(type) THEN "" ELSE " ")
             \o declaredName(v, in_context)
             \o declaredInit(v, init_from, in_context)
             \o ";"

\* The assertions of getLocalVariableInitCode.
declarationAccepted(v, init_from, in_context) ==
    /\ ~isModuleVariable(v)
    /\ (~in_context /\ isTempVariable(v)) => init_from = None

-----------------------------------------------------------------------------
(* Assignment *)

\* The reference count of an assignment that always takes the reference.
refCountOf_always(cleanup, tmp_name) == 1

refCountOf(cleanup, tmp_name) ==
    IF needsCleanup(cleanup, tmp_name) THEN 1 ELSE 0

refCountText(ref_count) == IF ref_count = 1 THEN "1" ELSE "0"

writeTemplate(v, ref_count) ==
    IF v.isSharedTechnically
    THEN IF ref_count # 0 THEN "template_write_shared_unclear_ref0"
                          ELSE "template_write_shared_unclear_ref1"
    ELSE IF ref_count # 0 THEN "template_write_local_unclear_ref0"
                          ELSE "template_write_local_unclear_ref1"

assignmentEmission(context, v, tmp_name, ref_count) ==
    IF isModuleVariable(v)
    THEN << [ template |-> "UPDATE_STRING_DICT",
              text |-> "UPDATE_STRING_DICT" \o refCountText(ref_count)
                       \o "( moduledict_" \o getModuleCodeName
                       \o ", (Nuitka_StringObject *)"
                       \o getConstantCode(v.name) \o ", " \o tmp_name
                       \o " );" ] >>
    ELSE << [ template |-> writeTemplate(v, ref_count),
              identifier |-> getVariableCode(context, v),
              tmp_name |-> tmp_name ] >>

\* The cleanup set of an assignment that forgets the transfer.
assignmentCleanup_kept(cleanup, tmp_name, ref_count) == cleanup

\* The cleanup set after the assignment's transfer of ownership.
assignmentCleanup(cleanup, tmp_name, ref_count) ==
    IF ref_count # 0 THEN removeCleanupTempName(cleanup, tmp_name)
                     ELSE cleanup

assignmentAccepted(v) ==
    isModuleVariable(v) \/ isLocalVariable(v) \/ isTempVariable(v)

-----------------------------------------------------------------------------
(* Access *)

moduleReadMessage(context, version, name) ==
    IF version < 340 /\ ~context.isPythonModule
    THEN "global name '" \o name \o "' is not defined"
    ELSE "name '" \o name \o "' is not defined"

\* The message of a maybe local variable worded as a module variable's.
maybeLocalReadMessage_global(context, version, name) ==
    moduleReadMessage(context, version, name)

maybeLocalReadMessage(context, version, name) ==
    "name '" \o name \o "' is not defined"

localReadTemplate(v) ==
    IF v.isSharedTechnically
    THEN IF isParameterVariable(v) /\ ~v.hasDelIndicator
         THEN "template_read_shared_unclear"
         ELSE "template_read_shared_known"
    ELSE "template_read_local"

\* needs_check of a local variable's read as computed from the variable.
localNeedsCheck_computed(v) ==
    ~(isParameterVariable(v) /\ ~v.hasDelIndicator)

\* needs_check of a local variable's read: computed from the variable, then
\* set regardless, as the del indicator is not yet reliable.
localNeedsCheck(v) ==
    LET computed == ~(isParameterVariable(v) /\ ~v.hasDelIndicator)
    IN  computed \/ TRUE

\* Whether the read of a local variable marks the context.
localMarksContext(v) == TRUE

\* needs_check of a temporary variable's read without the final reset for
\* temporaries that are not shared.
tempNeedsCheck_unreset(v) ==
    IF v.isSharedTechnically
    THEN ~v.isTempVariableReference
    ELSE ~(isParameterVariable(v) /\ ~v.hasDelIndicator)

\* needs_check of a temporary variable's read.
tempNeedsCheck(v) ==
    IF v.isSharedTechnically
    THEN ~v.isTempVariableReference
    ELSE LET computed == ~(isParameterVariable(v) /\ ~v.hasDelIndicator)
         IN  IF isTempVariable(v) THEN FALSE ELSE computed

tempReadMessage(v) ==
    IF v.isSharedTechnically
    THEN "free variable '" \o v.name
             \o "' referenced before assignment in enclosing scope"
    ELSE "local variable '" \o v.name \o "' referenced before assignment"

accessEmission(to_name, v, context, version) ==
    IF isModuleVariable(v)
    THEN << [ template |-> "template_read_mvar_unclear",
              module_identifier |-> getModuleCodeName,
              tmp_name |-> to_name,
              var_name |-> getConstantCode(v.name) ],
            getErrorFormatExitCode(to_name, "PyExc_NameError",
                << moduleReadMessage(context, version, v.name) >>) >>
    ELSE IF isMaybeLocalVariable(v)
    THEN << [ template |-> "template_read_maybe_local_unclear",
              locals_dict |-> "locals_dict",
              module_identifier |-> getModuleCodeName,
              tmp_name |-> to_name,
              var_name |-> getConstantCode(v.name) ],
            getErrorFormatExitCode(to_name, "PyExc_NameError",
                << maybeLocalReadMessage(context, version, v.name) >>) >>
    ELSE IF isLocalVariable(v)
    THEN << [ template |-> localReadTemplate(v),
              tmp_name |-> to_name,
              identifier |-> getVariableCode(context, v) ] >>
         \o (IF localNeedsCheck(v)
             THEN << getErrorFormatExitCode(to_name,
                         "PyExc_UnboundLocalError",
                         << "local variable '" \o v.name
                                \o "' referenced before assignment" >>) >>
             ELSE << >>)
    ELSE << [ template |-> (IF v.isSharedTechnically
                            THEN "template_read_shared_unclear"
                            ELSE "template_read_local"),
              tmp_name |-> to_name,
              identifier |-> getVariableCode(context, v) ] >>
         \o (IF tempNeedsCheck(v)
             THEN << getErrorFormatExitCode(to_name,
                         "PyExc_UnboundLocalError",
                         << tempReadMessage(v) >>) >>
             ELSE << >>)

accessAccepted(v) ==
    isModuleVariable(v) \/ isMaybeLocalVariable(v) \/ isLocalVariable(v)
        \/ isTempVariable(v)

-----------------------------------------------------------------------------
(* Deletion *)

\* The message of a module variable's deletion worded as in a module.
moduleDelMessage_plain(context, name) ==
    "name '" \o name \o "' is not defined"

moduleDelMessage(context, name) ==
    (IF ~context.isPythonModule THEN "global " ELSE "")
        \o "name '" \o name \o "' is not defined"

\* Whether the deletion of a module variable is checked.
moduleDelCheck(tolerant) == ~tolerant

delTemplate(v, tolerant) ==
    IF tolerant
    THEN IF v.isSharedTechnically THEN "template_del_shared_tolerant"
                                  ELSE "template_del_local_tolerant"
    ELSE IF v.isSharedTechnically THEN "template_del_shared_intolerant"
                                  ELSE "template_del_local_intolerant"

\* The guards of a local variable's deletion with the branches exchanged.
localDelGuard_exchanged(context, v, res_name) ==
    IF v.owner # context.id
    THEN << getErrorFormatExitBoolCode(res_name \o " == false",
                "PyExc_UnboundLocalError",
                << "local variable '" \o v.name
                       \o "' referenced before assignment" >>) >>
    ELSE << getErrorFormatExitBoolCode(res_name \o " == false",
                "PyExc_NameError",
                << "free variable '" \o v.name
                       \o "' referenced before assignment in enclosing scope"
                >>) >>

\* What follows the intolerant deletion of a local variable.
localDelGuard(context, v, res_name) ==
    IF v.owner = context.id
    THEN << getErrorFormatExitBoolCode(res_name \o " == false",
                "PyExc_UnboundLocalError",
                << "local variable '" \o v.name
                       \o "' referenced before assignment" >>) >>
    ELSE << getErrorFormatExitBoolCode(res_name \o " == false",
                "PyExc_NameError",
                << "free variable '" \o v.name
                       \o "' referenced before assignment in enclosing scope"
                >>) >>

\* A temporary variable's deletion guarded as a local variable's.
tempDelCheck_guarded(context, v, res_name) ==
    localDelGuard(context, v, res_name)

\* What follows the intolerant deletion of a temporary variable.
tempDelCheck(context, v, res_name) ==
    << [ template |-> "assert",
         text |-> "assert( " \o res_name \o " != false );" ] >>

delEmission(tolerant, v, context) ==
    IF isModuleVariable(v)
    THEN << [ template |-> "template_del_global_unclear",
              module_identifier |-> getModuleCodeName,
              res_name |-> getIntResName,
              var_name |-> getConstantCode(v.name) ] >>
         \o (IF moduleDelCheck(tolerant)
             THEN << getErrorFormatExitBoolCode(getIntResName \o " == -1",
                         "PyExc_NameError",
                         << moduleDelMessage(context, v.name) >>) >>
             ELSE << >>)
    ELSE IF tolerant
    THEN << [ template |-> delTemplate(v, tolerant),
              identifier |-> getVariableCode(context, v) ] >>
    ELSE << [ template |-> delTemplate(v, tolerant),
              identifier |-> getVariableCode(context, v),
              result |-> getBoolResName ] >>
         \o (IF isLocalVariable(v)
             THEN localDelGuard(context, v, getBoolResName)
             ELSE tempDelCheck(context, v, getBoolResName))

delAccepted(v) ==
    isModuleVariable(v) \/ isLocalVariable(v) \/ isTempVariable(v)

-----------------------------------------------------------------------------
(* The state machine *)

Init ==
    /\ owner \in Scopes
    /\ python_version \in PythonVersions
    /\ variable \in VariablesOf(owner)
    /\ cleanupSet \in SUBSET Temps
    /\ needsExceptionState = FALSE
    /\ emitted = << >>
    /\ call = NoCall
    /\ removals = [ t \in Temps |-> 0 ]
    /\ trip = << >>

\* getLocalVariableInitCode( variable, init_from, in_context )
Declare ==
    \E init_from \in InitSources(variable), in_context \in BOOLEAN :
        /\ declarationAccepted(variable, init_from, in_context)
        /\ emitted' = << [ template |-> "declaration",
                           text |-> getLocalVariableInitCode(variable,
                                        init_from, in_context),
                           identifier |-> declaredName(variable, in_context)
                         ] >>
        /\ call' = [ NoCall EXCEPT !.op = "declare",
                                   !.init_from = init_from,
                                   !.in_context = in_context ]
        /\ trip' = << [ op |-> "declare",
                        identifier |-> declaredName(variable, in_context),
                        in_context |-> in_context ] >>
        /\ UNCHANGED << owner, python_version, variable, cleanupSet,
                        needsExceptionState, removals >>

\* getVariableAssignmentCode( context, emit, variable, tmp_name )
getVariableAssignmentCode ==
    \E tmp_name \in Temps :
        LET ref_count == refCountOf(cleanupSet, tmp_name)
        IN  /\ assignmentAccepted(variable)
            /\ emitted' = assignmentEmission(owner, variable, tmp_name,
                                             ref_count)
            /\ cleanupSet' = assignmentCleanup(cleanupSet, tmp_name,
                                               ref_count)
            /\ removals' = IF ref_count # 0 /\ removals[tmp_name] < 2
                           THEN [ removals EXCEPT ![tmp_name] = @ + 1 ]
                           ELSE removals
            /\ call' = [ NoCall EXCEPT !.op = "write",
                                       !.tmp_name = tmp_name,
                                       !.ref_count = ref_count ]
            /\ trip' = IF Len(trip) = 1 /\ ~isModuleVariable(variable)
                       THEN Append(trip, usedName("write", owner, variable))
                       ELSE << >>
            /\ UNCHANGED << owner, python_version, variable,
                            needsExceptionState >>

\* getVariableAccessCode( to_name, variable, emit, context )
getVariableAccessCode ==
    \E to_name \in Temps :
        /\ accessAccepted(variable)
        /\ emitted' = accessEmission(to_name, variable, owner,
                                     python_version)
        /\ needsExceptionState' =
               (needsExceptionState
                    \/ (isLocalVariable(variable)
                            /\ localMarksContext(variable))
                    \/ GuardEmitted(emitted'))
        /\ call' = [ NoCall EXCEPT !.op = "read", !.tmp_name = to_name ]
        /\ trip' = IF Len(trip) = 2 /\ ~isModuleVariable(variable)
                        /\ ~isMaybeLocalVariable(variable)
                   THEN Append(trip, usedName("read", owner, variable))
                   ELSE << >>
        /\ UNCHANGED << owner, python_version, variable, cleanupSet,
                        removals >>

\* getVariableDelCode( tolerant, variable, emit, context )
getVariableDelCode ==
    \E tolerant \in BOOLEAN :
        /\ delAccepted(variable)
        /\ emitted' = delEmission(tolerant, variable, owner)
        /\ needsExceptionState' =
               (needsExceptionState \/ GuardEmitted(emitted'))
        /\ call' = [ NoCall EXCEPT !.op = "delete", !.tolerant = tolerant ]
        /\ trip' = << >>
        /\ UNCHANGED << owner, python_version, variable, cleanupSet,
                        removals >>

Next ==
    \/ Declare
    \/ getVariableAssignmentCode
    \/ getVariableAccessCode
    \/ getVariableDelCode

Spec == Init /\ [][Next]_vars

-----------------------------------------------------------------------------
(* What the claims read from the state *)

guardsOf(out) == SelectSeq(out, IsGuard)

localMessage(name) ==
    "local variable '" \o name \o "' referenced before assignment"

freeMessage(name) ==
    "free variable '" \o name
        \o "' referenced before assignment in enclosing scope"

ownerDiffers == variable.owner # owner.id

-----------------------------------------------------------------------------
(* C1 *)

\* C1: an assignment whose source temporary is in the cleanup set removes
\* exactly that temporary from it (ref_count 1); an assignment whose source
\* is not in the cleanup set leaves the set as it is (ref_count 0).
C1_WriteTransfersOwnership ==
    [][ call'.op = "write" =>
            LET t == call'.tmp_name
            IN  IF t \in cleanupSet
                THEN /\ call'.ref_count = 1
                     /\ t \notin cleanupSet'
                     /\ \A u \in Temps \ { t } :
                            u \in cleanupSet' <=> u \in cleanupSet
                ELSE /\ call'.ref_count = 0
                     /\ cleanupSet' = cleanupSet ]_vars

\* An assignment consumed its source and another temporary kept its place.
C1_Witness ==
    /\ call.op = "write"
    /\ call.ref_count = 1
    /\ call.tmp_name \notin cleanupSet
    /\ cleanupSet # { }

-----------------------------------------------------------------------------
(* C2 *)

IsPlainParameter ==
    /\ variable.kind = "Parameter"
    /\ ~variable.isSharedTechnically
    /\ ~variable.hasDelIndicator

\* C2 as claimed: the access of a not shared parameter without del
\* indicator emits the load alone and leaves the context's flag as it was.
C2_Original ==
    [][ (call'.op = "read" /\ IsPlainParameter) =>
            /\ Len(emitted') = 1
            /\ ~GuardEmitted(emitted')
            /\ needsExceptionState' = needsExceptionState ]_vars

\* C2 as amended: the access of a not shared parameter without del
\* indicator emits the direct load followed by the UnboundLocalError guard
\* with the local variable message, and the context is marked as needing
\* the exception variables.
C2_ParameterReadGuarded ==
    (call.op = "read" /\ IsPlainParameter) =>
        /\ Len(emitted) = 2
        /\ emitted[1].template = "template_read_local"
        /\ emitted[2] = [ template |-> "getErrorFormatExitCode",
                          check_name |-> call.tmp_name,
                          exception |-> "PyExc_UnboundLocalError",
                          args |-> << localMessage(variable.name) >> ]
        /\ needsExceptionState

C2_Witness ==
    /\ call.op = "read"
    /\ IsPlainParameter
    /\ GuardEmitted(emitted)

-----------------------------------------------------------------------------
(* C3 *)

\* C3: the access of a temporary variable is guarded exactly if the
\* variable is shared and not a temporary reference; the guard raises
\* UnboundLocalError with the free variable message.
C3_TempReadGuard ==
    (call.op = "read" /\ variable.kind = "Temporary") =>
        /\ GuardEmitted(emitted) <=>
               (variable.isSharedTechnically
                    /\ ~variable.isTempVariableReference)
        /\ GuardEmitted(emitted) =>
               guardsOf(emitted) =
                   << [ template |-> "getErrorFormatExitCode",
                        check_name |-> call.tmp_name,
                        exception |-> "PyExc_UnboundLocalError",
                        args |-> << freeMessage(variable.name) >> ] >>

C3_Witness ==
    /\ call.op = "read"
    /\ variable.kind = "Temporary"
    /\ variable.isSharedTechnically
    /\ ~variable.isTempVariableReference
    /\ GuardEmitted(emitted)

-----------------------------------------------------------------------------
(* C4 *)

\* C4: the intolerant deletion of a local variable emits one guard on the
\* deletion's result: UnboundLocalError with the local variable message if
\* the variable is owned by the context's owner, NameError with the free
\* variable message otherwise.
C4_LocalDelGuard ==
    (call.op = "delete" /\ ~call.tolerant
         /\ variable.kind \in { "Local", "Parameter" }) =>
        guardsOf(emitted) =
            << [ template |-> "getErrorFormatExitBoolCode",
                 condition |-> emitted[1].result \o " == false",
                 exception |-> IF ownerDiffers
                               THEN "PyExc_NameError"
                               ELSE "PyExc_UnboundLocalError",
                 args |-> << IF ownerDiffers
                             THEN freeMessage(variable.name)
                             ELSE localMessage(variable.name) >> ] >>

C4_Witness ==
    /\ call.op = "delete"
    /\ ~call.tolerant
    /\ variable.kind = "Local"
    /\ ownerDiffers
    /\ GuardEmitted(emitted)

-----------------------------------------------------------------------------
(* C5 *)

\* C5: the deletion of a module variable is guarded exactly if it is not
\* tolerant; the guard raises NameError, and its message starts with
\* "global " exactly if the context is not a module.
C5_ModuleDelGuard ==
    (call.op = "delete" /\ variable.kind = "ModuleGlobal") =>
        /\ GuardEmitted(emitted) <=> ~call.tolerant
        /\ GuardEmitted(emitted) =>
               guardsOf(emitted) =
                   << [ template |-> "getErrorFormatExitBoolCode",
                        condition |-> emitted[1].res_name \o " == -1",
                        exception |-> "PyExc_NameError",
                        args |-> << IF owner.id = "module"
                                    THEN "name '" \o variable.name
                                             \o "' is not defined"
                                    ELSE "global name '" \o variable.name
                                             \o "' is not defined" >> ] >>

C5_Witness ==
    /\ call.op = "delete"
    /\ ~call.tolerant
    /\ variable.kind = "ModuleGlobal"
    /\ owner.id # "module"
    /\ GuardEmitted(emitted)

-----------------------------------------------------------------------------
(* C6 *)

\* A declaration, then an assignment, then an access of a local variable
\* that is not shared have run.
TripDone ==
    /\ Len(trip) = 3
    /\ variable.kind = "Local"
    /\ ~variable.isSharedTechnically

\* C6 as claimed: the declaration, the assignment and the access render
\* the same storage name, in every context (here even with the declaration
\* asked for a closure member exactly if the uses name one).
C6_Original ==
    (TripDone /\ trip[1].in_context = trip[2].in_context) =>
        /\ trip[1].identifier = trip[2].identifier
        /\ trip[2].identifier = trip[3].identifier

\* Whether the context reaches the variable without a path in front of its
\* name: in a module, and in a function that is no generator and that
\* either needs no creation or owns the variable.
PlainAccess ==
    \/ owner.id = "module"
    \/ owner.id = "function"
    \/ owner.id = "created_function" /\ ~ownerDiffers

\* C6 as amended: the assignment and the access render the same storage
\* name; the declaration renders that name too exactly if the context
\* reaches the variable without an access path and the declaration was
\* asked for a closure member exactly if the variable is owned by another
\* scope.
C6_NameRoundTrip ==
    TripDone =>
        /\ trip[2].identifier = trip[3].identifier
        /\ trip[1].identifier = trip[2].identifier <=>
               (PlainAccess /\ trip[1].in_context = ownerDiffers)

\* The three names agree: a closure member declared and used from a
\* function that needs no creation.
C6_Witness ==
    /\ TripDone
    /\ ownerDiffers
    /\ trip[1].identifier = trip[3].identifier
    /\ trip[1].identifier = "closure_" \o encodeNonAscii(variable.name)

-----------------------------------------------------------------------------
(* C7 *)

\* C7: the intolerant deletion of a temporary variable emits the deletion
\* and then the assertion that its result is not false, and no guard.
C7_TempDelAsserts ==
    (call.op = "delete" /\ ~call.tolerant /\ variable.kind = "Temporary") =>
        /\ Len(emitted) = 2
        /\ emitted[1].template =
               (IF variable.isSharedTechnically
                THEN "template_del_shared_intolerant"
                ELSE "template_del_local_intolerant")
        /\ emitted[2] =
               [ template |-> "assert",
                 text |-> "assert( " \o emitted[1].result \o " != false );" ]
        /\ ~GuardEmitted(emitted)

C7_Witness ==
    /\ call.op = "delete"
    /\ ~call.tolerant
    /\ variable.kind = "Temporary"
    /\ ownerDiffers
    /\ Len(emitted) = 2

-----------------------------------------------------------------------------
(* C8 *)

\* C8: no call adds to the cleanup set and only an assignment removes from
\* it; a temporary is removed at most once, and an assignment from a
\* temporary that was removed before runs with ref_count 0.
C8_CleanupOnlyShrinksByWrite ==
    [][ /\ cleanupSet' \subseteq cleanupSet
        /\ cleanupSet' # cleanupSet => call'.op = "write"
        /\ \A t \in Temps : removals'[t] <= 1
        /\ (call'.op = "write" /\ removals[call'.tmp_name] >= 1) =>
               (call'.ref_count = 0 /\ cleanupSet' = cleanupSet) ]_vars

\* A second assignment from a temporary that was consumed before.
C8_Witness ==
    /\ call.op = "write"
    /\ call.ref_count = 0
    /\ removals[call.tmp_name] = 1

-----------------------------------------------------------------------------
(* C9 *)

\* The access path by owner of the context and owner of the variable.
AccessPathTable ==
    CASE owner.id = "module" -> ""
      [] owner.id = "created_generator" ->
             IF ownerDiffers THEN "_python_context->common_context->"
                             ELSE "_python_context->"
      [] owner.id = "created_function" ->
             IF ownerDiffers THEN "_python_context->" ELSE ""
      [] owner.id = "generator" -> "_python_context->"
      [] owner.id = "function" -> ""

\* The name after the access path.
NameTable ==
    IF ownerDiffers \/ owner.id \in { "generator", "created_generator" }
    THEN "closure_" \o encodeNonAscii(variable.name)
    ELSE IF variable.kind = "Parameter"
    THEN "par_" \o encodeNonAscii(variable.name)
    ELSE IF variable.kind = "Temporary"
    THEN "tmp_" \o encodeNonAscii(variable.name)
    ELSE "var_" \o encodeNonAscii(variable.name)

\* C9: the storage name an assignment, access or deletion of a local or
\* temporary variable renders starts with the access path of the table.
C9_AccessPrefix ==
    (call.op \in { "read", "write", "delete" }
         /\ variable.kind \in { "Local", "Parameter", "Temporary" }) =>
        emitted[1].identifier = AccessPathTable \o NameTable

\* A generator that needs creation reaches a variable of another scope
\* through the common context.
C9_Witness ==
    /\ call.op = "read"
    /\ variable.kind = "Local"
    /\ owner.id = "created_generator"
    /\ ownerDiffers
    /\ emitted[1].identifier =
           "_python_context->common_context->closure_"
               \o encodeNonAscii(variable.name)

-----------------------------------------------------------------------------
(* C10 *)

\* The guard the access of a module variable of the same name emits in the
\* same context.
ModuleGuard ==
    guardsOf(accessEmission(call.tmp_name,
                            [ variable EXCEPT !.kind = "ModuleGlobal" ],
                            owner, python_version))

\* C10 as claimed: the access of a maybe local variable emits the guard
\* the access of a module variable of that name emits, in every context
\* and for every version.
C10_Original ==
    (call.op = "read" /\ variable.kind = "MaybeLocal") =>
        /\ GuardEmitted(emitted)
        /\ guardsOf(emitted) = ModuleGuard

\* C10 as amended: the access of a maybe local variable always emits a
\* guard raising NameError with the message "name '<name>' is not defined";
\* it is the module variable's guard exactly if the context is a module or
\* the version is 3.4 or later.
C10_MaybeLocalGuard ==
    (call.op = "read" /\ variable.kind = "MaybeLocal") =>
        /\ guardsOf(emitted) =
               << [ template |-> "getErrorFormatExitCode",
                    check_name |-> call.tmp_name,
                    exception |-> "PyExc_NameError",
                    args |-> << "name '" \o variable.name
                                    \o "' is not defined" >> ] >>
        /\ guardsOf(emitted) = ModuleGuard <=>
               (owner.id = "module" \/ python_version >= 340)

C10_Witness ==
    /\ call.op = "read"
    /\ variable.kind = "MaybeLocal"
    /\ owner.id # "module"
    /\ python_version < 340
    /\ GuardEmitted(emitted)

====
